---- MODULE Spec2Model ----
(***************************************************************************)
(* Model of src/script.js: the form-to-URL query builder (updateUrl) and   *)
(* the handlers wired around it (toggleLock, copyUrl, the copy-revert      *)
(* timer, the form's 'input' listener, the DOMContentLoaded set-up).       *)
(*                                                                         *)
(* A string is a sequence of tokens.  A token is one character, so that    *)
(* split, trim, endsWith and the urlencoded serializer are computed        *)
(* character by character, or a whole word of letters, digits and '_'      *)
(* ("price_ascend", "true", a field name), which none of them looks into.  *)
(***************************************************************************)
EXTENDS Integers, Sequences, FiniteSets, TLC

VARIABLES
    pc,             \* "loading" before the DOMContentLoaded handler ran, then "ready"
    form,           \* per control of queryForm: [value, checked]
    baseUrlValue,   \* baseUrlInput.value
    readOnly,       \* baseUrlInput.readOnly
    lockText,       \* toggleLockBtn.textContent
    generatedUrl,   \* generatedUrlTextarea.value
    href,           \* goToFbButton.href as assigned
    copyText,       \* copyUrlButton.textContent
    copiedClass,    \* copyUrlButton.classList contains 'copied'
    pendingWrites,  \* copyUrl invocations suspended at the await
    timers,         \* copy-revert timeouts not fired yet
    run,            \* the locals of the most recent updateUrl invocation
    probe,          \* history: the locals of one earlier invocation
    later           \* history: run began after probe was taken

vars == <<pc, form, baseUrlValue, readOnly, lockText, generatedUrl, href,
          copyText, copiedClass, pendingWrites, timers, run, probe, later>>

(***************************************************************************)
(* Bounds                                                                  *)
(***************************************************************************)
\* longest text enumerated exhaustively for the comma-separated input
MaxLen == 3
\* copyUrl invocations in flight (awaiting the clipboard or their timer)
MaxCopies == 2

(***************************************************************************)
(* Strings                                                                 *)
(***************************************************************************)
Alphabet == {"a", " ", ","}

StringsUpTo(n) == UNION {[1..k -> Alphabet] : k \in 0..n}

\* the two comma-separated texts the specification quotes
SampleAbc == <<"a", ",", " ", "b", " ", ",", ",", "c">>
SampleCarTruck == <<"c", "a", "r", ",", " ", "t", "r", "u", "c", "k", " ", ",", " ">>

Concat(ss) ==
    LET F[i \in 0..Len(ss)] == IF i = 0 THEN <<>> ELSE F[i - 1] \o ss[i]
    IN F[Len(ss)]

Range(seq) == {seq[i] : i \in 1..Len(seq)}

\* String.prototype.endsWith('/')
EndsWithSlash(s) == Len(s) > 0 /\ s[Len(s)] = "/"

\* String.prototype.trim(): strips the white space at both ends
TrimStart(s) ==
    LET solid == {i \in 1..Len(s) : s[i] # " "}
    IN IF solid = {} THEN <<>>
       ELSE SubSeq(s, CHOOSE i \in solid : \A j \in solid : i <= j, Len(s))

TrimEnd(s) ==
    LET solid == {i \in 1..Len(s) : s[i] # " "}
    IN IF solid = {} THEN <<>>
       ELSE SubSeq(s, 1, CHOOSE i \in solid : \A j \in solid : j <= i)

Trim(s) == TrimEnd(TrimStart(s))

\* String.prototype.split(','): the pieces between the commas, empty ones kept
SplitComma(s) ==
    LET F[i \in 0..Len(s)] ==
            IF i = 0 THEN [done |-> <<>>, cur |-> <<>>]
            ELSE LET prev == F[i - 1]
                 IN IF s[i] = ","
                    THEN [done |-> Append(prev.done, prev.cur), cur |-> <<>>]
                    ELSE [done |-> prev.done, cur |-> Append(prev.cur, s[i])]
        last == F[Len(s)]
    IN Append(last.done, last.cur)

\* faulty variant of SplitTrimFilter: the filter(Boolean) step is lost
SplitTrimNoFilter(value) ==
    LET pieces == SplitComma(value)
    IN [i \in 1..Len(pieces) |-> Trim(pieces[i])]

\* value.split(',').map(s => s.trim()).filter(Boolean)
SplitTrimFilter(value) ==
    LET pieces  == SplitComma(value)
        trimmed == [i \in 1..Len(pieces) |-> Trim(pieces[i])]
    IN SelectSeq(trimmed, LAMBDA p : p # <<>>)

(***************************************************************************)
(* URLSearchParams: an ordered list of [name, value] pairs                 *)
(***************************************************************************)
Pair(k, v) == [name |-> k, value |-> v]

\* URLSearchParams.append
ParamsAppend(params, k, v) == Append(params, Pair(k, v))

\* URLSearchParams.set: the first pair named k takes the value and the other
\* pairs named k are removed; with no pair named k it appends
ParamsSet(params, k, v) ==
    IF \E i \in 1..Len(params) : params[i].name = k
    THEN LET first == CHOOSE i \in 1..Len(params) :
                          /\ params[i].name = k
                          /\ \A j \in 1..(i - 1) : params[j].name # k
             F[i \in 0..Len(params)] ==
                 IF i = 0 THEN <<>>
                 ELSE LET prev == F[i - 1]
                      IN IF i = first THEN Append(prev, Pair(k, v))
                         ELSE IF params[i].name = k THEN prev
                         ELSE Append(prev, params[i])
         IN F[Len(params)]
    ELSE Append(params, Pair(k, v))

\* values.forEach(v => params.append(key, v))
ParamsAppendAll(params, k, values) ==
    LET F[i \in 0..Len(values)] ==
            IF i = 0 THEN params ELSE ParamsAppend(F[i - 1], k, values[i])
    IN F[Len(values)]

\* the application/x-www-form-urlencoded byte serializer, per character
UrlEncodeChar(c) ==
    CASE c = " " -> <<"+">>
      [] c = "," -> <<"%", "2", "C">>
      [] c = "/" -> <<"%", "2", "F">>
      [] OTHER   -> <<c>>

UrlEncode(s) == Concat([i \in 1..Len(s) |-> UrlEncodeChar(s[i])])

\* URLSearchParams.toString(): name=value joined by '&'
ParamsToString(params) ==
    LET F[i \in 0..Len(params)] ==
            IF i = 0 THEN <<>>
            ELSE F[i - 1] \o (IF i = 1 THEN <<>> ELSE <<"&">>)
                          \o <<params[i].name>> \o <<"=">>
                          \o UrlEncode(params[i].value)
    IN F[Len(params)]

(***************************************************************************)
(* The form.  queryForm holds one control of every kind updateUrl tells    *)
(* apart: a populated <select>, a text input with data-array="comma", a    *)
(* plain text input, a lone checkbox, and the itemCondition check boxes    *)
(* that share one name (one of them with an empty value attribute).        *)
(***************************************************************************)
Markup == <<
    [name |-> "sortBy",          type |-> "select-one", array |-> "undefined"],
    [name |-> "keywords",        type |-> "text",       array |-> "comma"],
    [name |-> "query",           type |-> "text",       array |-> "undefined"],
    [name |-> "availability",    type |-> "checkbox",   array |-> "undefined"],
    [name |-> "itemCondition",   type |-> "checkbox",   array |-> "undefined"],
    [name |-> "itemCondition",   type |-> "checkbox",   array |-> "undefined"],
    [name |-> "itemCondition",   type |-> "checkbox",   array |-> "undefined"] >>

Controls == 1..Len(Markup)

\* option values of selectOptions.sortBy, the empty default among them
selectOptions == {<<>>, <<"best_match">>, <<"price_ascend">>}

Ctl(v, c) == [value |-> v, checked |-> c]

\* new FormData(form): one entry per successful control, in tree order; a
\* check box contributes its value attribute, and only while it is checked
FormData(f) ==
    LET F[i \in 0..Len(Markup)] ==
            IF i = 0 THEN <<>>
            ELSE LET prev == F[i - 1]
                 IN IF Markup[i].type = "checkbox" /\ ~f[i].checked THEN prev
                    ELSE Append(prev, Pair(Markup[i].name, f[i].value))
    IN F[Len(Markup)]

\* formData.keys()
FormDataKeys(formData) == [i \in 1..Len(formData) |-> formData[i].name]

\* formData.getAll(key)
GetAll(formData, key) ==
    LET named == SelectSeq(formData, LAMBDA e : e.name = key)
    IN [i \in 1..Len(named) |-> named[i].value]

\* faulty variant of UniqueKeys: Array.from(formData.keys()) without the Set
AllKeys(formData) == FormDataKeys(formData)

\* new Set(Array.from(formData.keys())): each key once, in first-seen order
UniqueKeys(formData) ==
    LET ks == FormDataKeys(formData)
        F[i \in 0..Len(ks)] ==
            IF i = 0 THEN <<>>
            ELSE LET prev == F[i - 1]
                 IN IF ks[i] \in Range(prev) THEN prev ELSE Append(prev, ks[i])
    IN F[Len(ks)]

\* form.elements[key]: the control of that name; a RadioNodeList, which has
\* neither a type nor a dataset, when several controls share the name
FormElement(key) ==
    LET named == {i \in Controls : Markup[i].name = key}
    IN IF named = {}
       THEN [kind |-> "undefined", type |-> "undefined",
             hasDataset |-> FALSE, array |-> "undefined"]
       ELSE IF Cardinality(named) = 1
       THEN LET i == CHOOSE j \in named : TRUE
            IN [kind |-> "Element", type |-> Markup[i].type,
                hasDataset |-> TRUE, array |-> Markup[i].array]
       ELSE [kind |-> "RadioNodeList", type |-> "undefined",
             hasDataset |-> FALSE, array |-> "undefined"]

(***************************************************************************)
(* updateUrl                                                               *)
(***************************************************************************)
Step(params, threw) == [params |-> params, threw |-> threw]

\* faulty variant of CheckboxBranch: the raw value is passed through
CheckboxBranchRaw(params, key, value) == ParamsSet(params, key, value)

\* line 85: params.set(key, 'true')
CheckboxBranch(params, key, value) ==
    ParamsSet(params, key, <<"true">>)

\* line 96: params.set(key, value)
StandardBranch(params, key, value) == ParamsSet(params, key, value)

\* faulty variant of MultiValueBranch: the `if (v)` test is lost
MultiValueBranchAll(params, key, allValues) ==
    ParamsAppendAll(params, key, allValues)

\* lines 101-103: allValues.forEach(v => { if (v) params.append(key, v); })
MultiValueBranch(params, key, allValues) ==
    ParamsAppendAll(params, key, SelectSeq(allValues, LAMBDA v : v # <<>>))

\* the body of `for (const key of keys)` from line 76 on, given the element
\* and the values of lines 73-74; reading element.dataset.array of an element
\* without a dataset is a TypeError
EncodeField(params, key, element, allValues) ==
    IF Len(allValues) = 0 THEN Step(params, FALSE)
    ELSE IF Len(allValues) = 1
    THEN IF allValues[1] = <<>> THEN Step(params, FALSE)
         ELSE IF element.kind # "undefined" /\ element.type = "checkbox"
         THEN Step(CheckboxBranch(params, key, allValues[1]), FALSE)
         ELSE IF element.kind # "undefined" /\ ~element.hasDataset
         THEN Step(params, TRUE)
         ELSE IF element.kind # "undefined" /\ element.array = "comma"
         THEN Step(ParamsAppendAll(params, key, SplitTrimFilter(allValues[1])), FALSE)
         ELSE Step(StandardBranch(params, key, allValues[1]), FALSE)
    ELSE Step(MultiValueBranch(params, key, allValues), FALSE)

\* lines 73-74, then the rest of the loop body
LoopBody(params, key, formData) ==
    EncodeField(params, key, FormElement(key), GetAll(formData, key))

\* the record of one pass of the loop: the params before and after it
Pass(prev, key, allValues, r) ==
    [params |-> r.params,
     threw  |-> r.threw,
     passes |-> Append(prev.passes,
                       [key |-> key, allValues |-> allValues,
                        before |-> prev.params, after |-> r.params,
                        threw |-> r.threw])]

\* the loop of lines 72-105 from params0; a pass that throws ends it
Loop(params0, keys, formData) ==
    LET F[i \in 0..Len(keys)] ==
            IF i = 0 THEN [params |-> params0, threw |-> FALSE, passes |-> <<>>]
            ELSE LET prev == F[i - 1]
                 IN IF prev.threw THEN prev
                    ELSE Pass(prev, keys[i], GetAll(formData, keys[i]),
                              LoopBody(prev.params, keys[i], formData))
    IN F[Len(keys)]

\* faulty variant of NormalizeBase: the slash is appended without the test
NormalizeBaseAlways(baseUrl) == baseUrl \o <<"/">>

\* lines 110-113
NormalizeBase(baseUrl) ==
    IF ~EndsWithSlash(baseUrl) THEN baseUrl \o <<"/">> ELSE baseUrl

\* faulty variant of FinalUrl: the '?' is appended without the test
FinalUrlAlways(baseUrl, paramString) == baseUrl \o <<"?">> \o paramString

\* line 115: baseUrl + (paramString ? `?${paramString}` : '')
FinalUrl(baseUrl, paramString) ==
    baseUrl \o (IF paramString # <<>> THEN <<"?">> \o paramString ELSE <<>>)

NoRun ==
    [outcome |-> "none", formData |-> <<>>, baseUrlInput |-> <<>>,
     passes |-> <<>>, params |-> <<>>, paramString |-> <<>>,
     baseUrl |-> <<>>, finalUrl |-> <<>>]

\* lines 107-115 after a loop that returned; nothing after a loop that threw
Outcome(formData, b, loop, paramString, baseUrl) ==
    IF loop.threw
    THEN [outcome |-> "TypeError", formData |-> formData, baseUrlInput |-> b,
          passes |-> loop.passes, params |-> loop.params,
          paramString |-> <<>>, baseUrl |-> <<>>, finalUrl |-> <<>>]
    ELSE [outcome |-> "returned", formData |-> formData, baseUrlInput |-> b,
          passes |-> loop.passes, params |-> loop.params,
          paramString |-> paramString, baseUrl |-> baseUrl,
          finalUrl |-> FinalUrl(baseUrl, paramString)]

\* lines 107-113 after the loop
AfterLoop(formData, b, loop) ==
    Outcome(formData, b, loop, ParamsToString(loop.params), NormalizeBase(b))

\* lines 70-115 on the entries of line 66, the loop starting from params0
BuildFrom(params0, formData, b) ==
    AfterLoop(formData, b, Loop(params0, UniqueKeys(formData), formData))

\* the locals of one invocation of updateUrl on form state f and base URL b
LocalsFrom(params0, f, b) == BuildFrom(params0, FormData(f), b)

\* faulty variant of Locals: params is created once and shared by every invocation
LocalsSharedParams(f, b) == LocalsFrom(run.params, f, b)

\* line 67: const params = new URLSearchParams(), fresh in every invocation
Locals(f, b) == LocalsFrom(<<>>, f, b)

\* updateUrl, run on the form and the base URL as the handler's edit leaves
\* them; lines 118-119 are reached only when the loop did not throw.  The
\* history variable probe keeps the invocation of one freely chosen moment,
\* and later tells the invocations that began after it was taken.
updateUrl ==
    /\ run' = Locals(form', baseUrlValue')
    /\ IF run'.outcome = "returned"
       THEN generatedUrl' = run'.finalUrl /\ href' = run'.finalUrl
       ELSE UNCHANGED <<generatedUrl, href>>
    /\ later' = (probe.outcome # "none")
    /\ probe' \in {probe} \cup (IF probe.outcome = "none" THEN {run'} ELSE {})

(***************************************************************************)
(* The states of the controls                                              *)
(***************************************************************************)
On == <<"on">>
New == <<"new">>
Used == <<"used">>
LikeNew == <<"l", "i", "k", "e", ",", " ", "n", "e", "w">>

\* what a control may hold when the page is loaded
PageChoices(i) ==
    CASE i = 1 -> {Ctl(v, FALSE) : v \in selectOptions}
      [] i = 2 -> {Ctl(v, FALSE) :
                     v \in StringsUpTo(MaxLen) \cup {SampleAbc, SampleCarTruck}}
      [] i = 3 -> {Ctl(<<>>, FALSE), Ctl(<<" ", "a", ",", "b", " ">>, FALSE)}
      [] i = 4 -> {Ctl(On, FALSE), Ctl(On, TRUE),
                   Ctl(<<"a", ",", " ", "b">>, TRUE), Ctl(<<>>, TRUE)}
      [] i = 5 -> {Ctl(New, c) : c \in BOOLEAN}
      [] i = 6 -> {Ctl(<<>>, c) : c \in BOOLEAN}
      [] i = 7 -> {Ctl(Used, FALSE), Ctl(Used, TRUE), Ctl(LikeNew, TRUE)}

\* what the user's edits range over once the page is ready
UiChoices(i) ==
    CASE i = 1 -> {Ctl(<<>>, FALSE)}
      [] i = 2 -> {Ctl(<<>>, FALSE), Ctl(<<"a", ",", " ", "b">>, FALSE)}
      [] i = 3 -> {Ctl(<<>>, FALSE)}
      [] i = 4 -> {Ctl(On, c) : c \in BOOLEAN}
      [] i = 5 -> {Ctl(New, c) : c \in BOOLEAN}
      [] i = 6 -> {Ctl(<<>>, FALSE)}
      [] i = 7 -> {Ctl(Used, c) : c \in BOOLEAN}

PageForms ==
    {<<c1, c2, c3, c4, c5, c6, c7>> :
        c1 \in PageChoices(1), c2 \in PageChoices(2), c3 \in PageChoices(3),
        c4 \in PageChoices(4), c5 \in PageChoices(5), c6 \in PageChoices(6),
        c7 \in PageChoices(7)}

UiForms ==
    {<<c1, c2, c3, c4, c5, c6, c7>> :
        c1 \in UiChoices(1), c2 \in UiChoices(2), c3 \in UiChoices(3),
        c4 \in UiChoices(4), c5 \in UiChoices(5), c6 \in UiChoices(6),
        c7 \in UiChoices(7)}

PageBaseUrls == {<<>>, <<"h", "/", "m">>, <<"h", "/", "m", "/">>, <<"h", "?", "q">>}
UiBaseUrls == {<<"h", "/", "m">>, <<"h", "/", "m", "/">>}

(***************************************************************************)
(* Handlers                                                                *)
(***************************************************************************)
\* lines 125-128; the button shows the open lock while the input is read-only
toggleLock ==
    /\ readOnly' = ~readOnly
    /\ lockText' = IF ~readOnly THEN "open-lock" ELSE "lock"

\* lines 156-164: the listeners are attached, then toggleLock() and updateUrl()
LoadPage ==
    /\ pc = "loading"
    /\ pc' = "ready"
    /\ toggleLock
    /\ UNCHANGED <<form, baseUrlValue, copyText, copiedClass, pendingWrites, timers>>
    /\ updateUrl

\* line 156: the user changes control i; the 'input' event reaches the form
Input(i, c) ==
    /\ pc = "ready"
    /\ c # form[i]
    /\ form' = [form EXCEPT ![i] = c]
    /\ UNCHANGED <<pc, baseUrlValue, readOnly, lockText, copyText, copiedClass,
                   pendingWrites, timers>>
    /\ updateUrl

\* the user edits the base URL input, which takes edits only while it is not
\* read-only; inside queryForm its 'input' event reaches the form's listener
InputBaseUrl(b) ==
    /\ pc = "ready"
    /\ ~readOnly
    /\ b # baseUrlValue
    /\ baseUrlValue' = b
    /\ UNCHANGED <<pc, form, readOnly, lockText, copyText, copiedClass,
                   pendingWrites, timers>>
    /\ updateUrl

\* the same edit with the base URL input outside queryForm: no listener runs
EditBaseUrl(b) ==
    /\ pc = "ready"
    /\ ~readOnly
    /\ b # baseUrlValue
    /\ baseUrlValue' = b
    /\ UNCHANGED <<pc, form, readOnly, lockText, generatedUrl, href, copyText,
                   copiedClass, pendingWrites, timers, run, probe, later>>

\* line 158: a click on the lock button
ClickToggleLock ==
    /\ pc = "ready"
    /\ toggleLock
    /\ UNCHANGED <<pc, form, baseUrlValue, generatedUrl, href, copyText,
                   copiedClass, pendingWrites, timers, run, probe, later>>

\* lines 134-136: a click on the copy button; copyUrl suspends at the await
copyUrl ==
    /\ pc = "ready"
    /\ pendingWrites + timers < MaxCopies
    /\ pendingWrites' = pendingWrites + 1
    /\ UNCHANGED <<pc, form, baseUrlValue, readOnly, lockText, generatedUrl, href,
                   copyText, copiedClass, timers, run, probe, later>>

\* lines 137-144: the clipboard write succeeded
CopyResolved ==
    /\ pendingWrites > 0
    /\ pendingWrites' = pendingWrites - 1
    /\ copyText' = "Copied!"
    /\ copiedClass' = TRUE
    /\ timers' = timers + 1
    /\ UNCHANGED <<pc, form, baseUrlValue, readOnly, lockText, generatedUrl, href,
                   run, probe, later>>

\* lines 145-149: the clipboard write failed; console.error and alert
CopyRejected ==
    /\ pendingWrites > 0
    /\ pendingWrites' = pendingWrites - 1
    /\ UNCHANGED <<pc, form, baseUrlValue, readOnly, lockText, generatedUrl, href,
                   copyText, copiedClass, timers, run, probe, later>>

\* lines 141-144: a copy-revert timeout fires
RevertTimeout ==
    /\ timers > 0
    /\ timers' = timers - 1
    /\ copyText' = "Copy URL"
    /\ copiedClass' = FALSE
    /\ UNCHANGED <<pc, form, baseUrlValue, readOnly, lockText, generatedUrl, href,
                   pendingWrites, run, probe, later>>

(***************************************************************************)
(* Specifications                                                          *)
(***************************************************************************)
Unloaded ==
    /\ pc = "loading"
    /\ readOnly \in BOOLEAN
    /\ lockText = "lock"
    /\ generatedUrl = <<>>
    /\ href = <<>>
    /\ copyText = "Copy URL"
    /\ copiedClass = FALSE
    /\ pendingWrites = 0
    /\ timers = 0
    /\ run = NoRun
    /\ probe = NoRun
    /\ later = FALSE

\* the page as served, with the small set of values the user's edits range over
Init ==
    /\ Unloaded
    /\ form \in UiForms
    /\ baseUrlValue \in UiBaseUrls

Next ==
    \/ LoadPage
    \/ \E i \in Controls : \E c \in UiChoices(i) : Input(i, c)
    \/ \E b \in UiBaseUrls : InputBaseUrl(b)
    \/ \E b \in UiBaseUrls : EditBaseUrl(b)
    \/ ClickToggleLock
    \/ copyUrl
    \/ CopyResolved
    \/ CopyRejected
    \/ RevertTimeout

Spec == Init /\ [][Next]_vars

\* updateUrl as a function of its inputs: the page is loaded with any form
\* state and base URL of the bounded sets
InitBuild ==
    /\ Unloaded
    /\ form \in PageForms
    /\ baseUrlValue \in PageBaseUrls

NextBuild == LoadPage

SpecBuild == InitBuild /\ [][NextBuild]_vars

(***************************************************************************)
(* Properties.  The expected outputs below are written on their own, from  *)
(* positions in the raw strings, and use none of the operators above that  *)
(* compute what updateUrl emits.                                           *)
(***************************************************************************)
Passes == Range(run.passes)

IsPrefix(s, t) == Len(s) <= Len(t) /\ SubSeq(t, 1, Len(s)) = s

\* the pairs a pass added at the end of params; a pass that touched the
\* pairs already there added nothing that counts as emitted
Emitted(p) ==
    IF IsPrefix(p.before, p.after)
    THEN SubSeq(p.after, Len(p.before) + 1, Len(p.after))
    ELSE <<"overwritten">>

PairsOf(key, values) == [i \in 1..Len(values) |-> [name |-> key, value |-> values[i]]]

\* the elements of a set of numbers in increasing order
Ascending(S) ==
    LET F[i \in 0..Cardinality(S)] ==
            IF i = 0 THEN <<>>
            ELSE Append(F[i - 1],
                        CHOOSE x \in S :
                            Cardinality({y \in S : y < x}) = i - 1)
    IN F[Cardinality(S)]

\* the piece of s that starts after position a: up to the next comma or the end
PieceAfter(s, a) ==
    LET ends == {c \in (a + 1)..(Len(s) + 1) : c = Len(s) + 1 \/ s[c] = ","}
        b    == CHOOSE c \in ends : \A d \in ends : c <= d
    IN SubSeq(s, a + 1, b - 1)

\* a piece without the blanks around it
Stripped(piece) ==
    LET solid == {i \in 1..Len(piece) : piece[i] # " "}
    IN IF solid = {} THEN <<>>
       ELSE SubSeq(piece,
                   CHOOSE i \in solid : \A j \in solid : i <= j,
                   CHOOSE i \in solid : \A j \in solid : j <= i)

\* the non-empty stripped pieces of s, in the order they stand in s
ExpectedPieces(s) ==
    LET starts == {0} \cup {i \in 1..Len(s) : s[i] = ","}
        kept   == {a \in starts : Stripped(PieceAfter(s, a)) # <<>>}
        order  == Ascending(kept)
    IN [i \in 1..Len(order) |-> Stripped(PieceAfter(s, order[i]))]

\* the non-empty entries of values, in their order
NonEmpty(values) ==
    LET order == Ascending({i \in 1..Len(values) : values[i] # <<>>})
    IN [i \in 1..Len(order) |-> values[order[i]]]

IsCheckbox(key) ==
    FormElement(key).kind = "Element" /\ FormElement(key).type = "checkbox"

IsComma(key) ==
    FormElement(key).kind = "Element" /\ FormElement(key).array = "comma"

OneNonEmpty(p) == Len(p.allValues) = 1 /\ p.allValues[1] # <<>>

\* C1: updateUrl has no error outcome: whatever the form holds and whatever
\* the base URL is, the run started on page load returns (it does not throw)
\* and leaves a queryString and a finalUrl.
C1_NeverThrows ==
    pc = "ready" => run.outcome = "returned"

\* C2: a pass over a comma-separated field (not a check box) that holds one
\* non-empty string emits one pair (key, piece) for every piece of the string
\* between commas that is not empty once the blanks around it are stripped,
\* in the order of the pieces, and nothing when no piece is left.
C2_CommaSeparated ==
    \A p \in Passes :
        (OneNonEmpty(p) /\ IsComma(p.key) /\ ~IsCheckbox(p.key))
            => /\ ~p.threw
               /\ Emitted(p) = PairsOf(p.key, ExpectedPieces(p.allValues[1]))

C2_Witness ==
    \E p \in Passes :
        /\ p.key = "keywords"
        /\ p.allValues = <<SampleAbc>>
        /\ Emitted(p) = PairsOf("keywords", <<<<"a">>, <<"b">>, <<"c">>>>)

\* C3: a pass over a check box that holds one non-empty raw value emits
\* exactly the pair (key, "true"), whatever the raw value; a check box that is
\* absent from the snapshot gets no pass and no pair.
C3_Checkbox ==
    /\ \A p \in Passes :
          (OneNonEmpty(p) /\ IsCheckbox(p.key))
              => ~p.threw /\ Emitted(p) = <<[name |-> p.key, value |-> <<"true">>]>>
    /\ \A i \in Controls :
          (pc = "ready" /\ IsCheckbox(Markup[i].name) /\ ~form[i].checked)
              => /\ \A p \in Passes : p.key # Markup[i].name
                 /\ \A q \in Range(run.params) : q.name # Markup[i].name

C3_Witness ==
    /\ form[4] = Ctl(<<"a", ",", " ", "b">>, TRUE)
    /\ \E p \in Passes :
           /\ p.key = "availability"
           /\ p.allValues = <<<<"a", ",", " ", "b">>>>
           /\ Emitted(p) = <<[name |-> "availability", value |-> <<"true">>]>>

\* C4: a pass over a key with more than one value emits one pair (key, v)
\* for every non-empty v, in the order of the values, each v as it is
\* (neither "true" nor split at commas), and drops the empty entries.
C4_MultiValue ==
    \A p \in Passes :
        Len(p.allValues) > 1
            => ~p.threw /\ Emitted(p) = PairsOf(p.key, NonEmpty(p.allValues))

C4_Witness ==
    \E p \in Passes :
        /\ p.key = "itemCondition"
        /\ p.allValues = <<New, <<>>, LikeNew>>
        /\ Emitted(p) = PairsOf("itemCondition", <<New, LikeNew>>)

\* the position of the first entry of the snapshot that is named key
FirstEntry(key) ==
    CHOOSE i \in 1..Len(run.formData) :
        /\ run.formData[i].name = key
        /\ \A j \in 1..(i - 1) : run.formData[j].name # key

\* C5: the parameter sequence of a run that returned is the concatenation of
\* what its passes emitted, with one pass for every key of the snapshot and
\* none twice, in the order the keys first appear in it; so pairs of one name
\* are contiguous and in emission order, and no other pair appears.
C5_Concatenation ==
    run.outcome = "returned"
        => /\ {p.key : p \in Passes} = {e.name : e \in Range(run.formData)}
           /\ \A i, j \in 1..Len(run.passes) :
                 i < j => /\ run.passes[i].key # run.passes[j].key
                          /\ FirstEntry(run.passes[i].key) < FirstEntry(run.passes[j].key)
           /\ \A i \in 1..Len(run.passes) :
                 /\ ~run.passes[i].threw
                 /\ IsPrefix(run.passes[i].before, run.passes[i].after)
           /\ run.params = Concat([i \in 1..Len(run.passes) |-> Emitted(run.passes[i])])

C5_Witness ==
    /\ run.outcome = "returned"
    /\ GetAll(run.formData, "keywords") = <<SampleCarTruck>>
    /\ run.params =
           <<[name |-> "sortBy", value |-> <<"price_ascend">>],
             [name |-> "keywords", value |-> <<"c", "a", "r">>],
             [name |-> "keywords", value |-> <<"t", "r", "u", "c", "k">>],
             [name |-> "itemCondition", value |-> New],
             [name |-> "itemCondition", value |-> Used]>>

\* C6: after a run that returned, finalUrl is the normalized base URL followed
\* by "?" and the query string exactly when a pair was emitted; with no pair
\* the query string is empty and finalUrl is the normalized base URL alone.
C6_QuerySeparator ==
    run.outcome = "returned"
        => /\ (run.params = <<>>) <=> (run.paramString = <<>>)
           /\ run.params # <<>>
                 => run.finalUrl = run.baseUrl \o <<"?">> \o run.paramString
           /\ run.params = <<>> => run.finalUrl = run.baseUrl

C6_Witness ==
    /\ run.outcome = "returned"
    /\ GetAll(run.formData, "keywords") = <<<<" ", ",", " ">>>>
    /\ run.params = <<>>
    /\ run.baseUrlInput = <<"h", "/", "m">>
    /\ run.finalUrl = <<"h", "/", "m", "/">>
    /\ generatedUrl = run.finalUrl

\* url is head followed by nothing or by "?" and the query string
IsBaseOf(head, url, query) ==
    /\ IsPrefix(head, url)
    /\ SubSeq(url, Len(head) + 1, Len(url)) \in {<<>>, <<"?">> \o query}

\* the base URL with one "/" appended when it does not end with one
Slashed(b) == IF Len(b) > 0 /\ b[Len(b)] = "/" THEN b ELSE b \o <<"/">>

\* C7: after a run that returned, finalUrl is, before its query part, the
\* base URL with one "/" appended when it does not end with "/", and the base
\* URL itself when it does; normalizing that part again changes nothing.
C7_BaseNormalization ==
    run.outcome = "returned"
        => /\ IsBaseOf(Slashed(run.baseUrlInput), run.finalUrl, run.paramString)
           /\ NormalizeBase(Slashed(run.baseUrlInput)) = Slashed(run.baseUrlInput)

C7_Witness ==
    /\ run.outcome = "returned"
    /\ run.params # <<>>
    /\ run.baseUrlInput = <<"h", "/", "m">>
    /\ IsPrefix(<<"h", "/", "m", "/", "?">>, run.finalUrl)

\* C9: a pass over a key that holds one non-empty value, the field being
\* neither a check box nor comma-separated, emits exactly the pair
\* (key, value) with the value as it is; a pass over a key that holds one
\* empty string emits nothing, whatever the field.
C9_StandardSingleValue ==
    \A p \in Passes :
        /\ (OneNonEmpty(p) /\ ~IsCheckbox(p.key) /\ ~IsComma(p.key))
              => /\ ~p.threw
                 /\ Emitted(p) = <<[name |-> p.key, value |-> p.allValues[1]]>>
        /\ p.allValues = <<<<>>>> => ~p.threw /\ Emitted(p) = <<>>

SameInputs ==
    /\ probe.outcome # "none"
    /\ probe.formData = run.formData
    /\ probe.baseUrlInput = run.baseUrlInput

\* C8: two invocations of updateUrl on the same snapshot and the same base
\* URL end the same way with the same queryString and finalUrl, whatever
\* invocations, lock toggles and copies came before or between them.
C8_PureFunction ==
    SameInputs
        => /\ probe.outcome = run.outcome
           /\ probe.paramString = run.paramString
           /\ probe.finalUrl = run.finalUrl

C8_Witness ==
    /\ later
    /\ SameInputs
    /\ run.outcome = "returned"
    /\ run.params # <<>>
    /\ readOnly
    /\ copyText = "Copied!"
    /\ generatedUrl = probe.finalUrl

\* C10: once the page is ready, the preview textarea and the link's href are
\* equal to each other and to the finalUrl that the most recent invocation of
\* updateUrl computed.
C10_DisplayIsLatest ==
    pc = "ready"
        => /\ generatedUrl = href
           /\ run.outcome = "returned"
           /\ generatedUrl = run.finalUrl

====
